---- MODULE Spec2Model ----
(***************************************************************************)
(* A model of the aspyre dispatch core: the route registry and matcher of  *)
(* url_class.py (Regex, Simple), the chain resolver and execution loop of  *)
(* aspyre.py (Aspyre.find, Aspyre.handle, Aspyre.__call__,                 *)
(* AspyreGroup.__call__).                                                  *)
(* A second specification, DictSpec, models the context dictionaries of    *)
(* dictionary.py (AspyreDictImmutable, AspyreDict, AspyreDictHistory).     *)
(* A third, ConcSpec, runs two requests concurrently through find and      *)
(* handle, interleaved where handle awaits a hook.                         *)
(*                                                                         *)
(* Text is modelled character by character: a str is a sequence of         *)
(* one-character strings.  A regular expression is a sequence of elements, *)
(* each a literal character or a named group.                              *)
(***************************************************************************)
EXTENDS Integers, Sequences, FiniteSets, TLC

VARIABLES
    url_list,     \* Regex.__url_list: the registered routes, in registration order
    types,        \* Regex.__types: the caller-supplied type registry
    hooks,        \* per handler object, the hook attributes it exposes
    dict_class,   \* the attribute Aspyre.dict_class ("unset" when the instance has none)
    call,         \* the API call made last: its name and its arguments
    pc,           \* "idle", or "handling" while Aspyre.handle is suspended at a hook
    found,        \* url_class.find's result inside the last Aspyre.find
    handlers,     \* the value Aspyre.find returned (the staged chain, or None)
    pos,          \* Aspyre.handle: index of the next chain entry
    context,      \* Aspyre.handle: the request context (a dict)
    log,          \* every hook invocation of the current request, in order
    result,       \* how the last API call ended: returned value or raised exception
    ctx,          \* dictionary.py: the context object the operations are applied to
    other,        \* dictionary.py: a second object, the operand of ==, + and copies
    dcall,        \* dictionary.py: the operation made last on ctx, with its arguments
    dres,         \* dictionary.py: how that operation ended
    saved,        \* dictionary.py: what ctx held when save() was last called, with no
                  \* rollback since; whether save() was ever called
    reqs          \* concurrent dispatches: per request, the locals of its Aspyre.handle

vars == <<url_list, types, hooks, dict_class, call, pc, found, handlers, pos, context, log, result>>

dvars == <<ctx, other, dcall, dres, saved>>

(***************************************************************************)
(* Bounds of the model.                                                    *)
(***************************************************************************)
MaxRoutes == 2         \* registered routes
MaxStatusReturns == 2  \* hook invocations of one request that return an integer

(***************************************************************************)
(* Text.                                                                   *)
(***************************************************************************)
Digits == {"0", "1", "2", "3", "4", "5", "6", "7", "8", "9"}

DigitValue(c) ==
    CASE c = "0" -> 0 [] c = "1" -> 1 [] c = "2" -> 2 [] c = "3" -> 3 [] c = "4" -> 4
      [] c = "5" -> 5 [] c = "6" -> 6 [] c = "7" -> 7 [] c = "8" -> 8 [] c = "9" -> 9

Max(S) == CHOOSE x \in S : \A y \in S : y <= x

T_products == <<"p", "r", "o", "d", "u", "c", "t", "s">>
T_1234 == <<"1", "2", "3", "4">>
T_abc == <<"a", "b", "c">>
T_product_id == <<"p", "r", "o", "d", "u", "c", "t", "_", "i", "d">>
T_name == <<"n", "a", "m", "e">>
T_host == <<"h", ".", "i", "o">>

(***************************************************************************)
(* Values handed to hooks and stored in dicts: None, an int, a str, a      *)
(* datetime (held as its timestamp).                                       *)
(***************************************************************************)
NoneVal == [t |-> "None", n |-> 0, s |-> <<>>]
IntVal(n) == [t |-> "int", n |-> n, s |-> <<>>]
StrVal(s) == [t |-> "str", n |-> 0, s |-> s]
DateTimeVal(n) == [t |-> "datetime", n |-> n, s |-> <<>>]

\* The outcome of a call that may raise: exc = "" when it returned.
Returned(v) == [exc |-> "", val |-> v]
Raised(e) == [exc |-> e, val |-> NoneVal]

(***************************************************************************)
(* Regular expressions and URL templates, as sequences of elements.        *)
(*   Ch(c)                a literal character                              *)
(*   Placeholder(t, n)    the text <t:n> of a Simple template              *)
(*   Group(t, n)          the text Regex.group(t, n) returns:              *)
(*                        (?P<t0_d_collis_1n>[^\/]+)                       *)
(*   ColonGroup(t, n)     the text (?P<t:n>[^\/]+)                         *)
(***************************************************************************)
Ch(c) == [k |-> "c", c |-> c, type |-> "", name |-> <<>>]
Placeholder(t, n) == [k |-> "ph", c |-> "", type |-> t, name |-> n]
ColonGroup(t, n) == [k |-> "colon", c |-> "", type |-> t, name |-> n]

\* Regex.group (url_class.py 216-240)
Group(t, n) == [k |-> "g", c |-> "", type |-> t, name |-> n]

Lit(s) == [i \in 1..Len(s) |-> Ch(s[i])]
Slash == Ch("/")

\* A compiled pattern, or None.
NoPattern == [none |-> TRUE, re |-> <<>>]
Compiled(re) == [none |-> FALSE, re |-> re]

\* re.compile refuses a pattern that names a group twice.
CompileFails(re) ==
    \E i, j \in 1..Len(re) :
        i < j /\ re[i].k = "g" /\ re[j].k = "g"
        /\ re[i].type = re[j].type /\ re[i].name = re[j].name

\* Regex.__replacement_strategy__ applied by __re_group_match.sub
\* (url_class.py 65, 74-83): a group whose name holds no ':' is rewritten to
\* itself; for a group written <type:name> the function reads the misspelt
\* attribute Regex.__seperator__ and raises AttributeError.
SubRaises(re) == \E i \in 1..Len(re) : re[i].k = "colon"

(***************************************************************************)
(* re.fullmatch for these patterns.  A group [^\/]+ takes one or more      *)
(* characters other than '/', as many as the rest of the pattern allows.   *)
(* The result names each capture by its group's (type, name).              *)
(***************************************************************************)
NoMatch == [ok |-> FALSE, caps |-> <<>>]

RECURSIVE NonSlashPrefix(_)
NonSlashPrefix(s) ==
    IF s = <<>> \/ Head(s) = "/" THEN 0 ELSE 1 + NonSlashPrefix(Tail(s))

RECURSIVE FullMatch(_, _)
FullMatch(re, s) ==
    IF re = <<>> THEN [ok |-> s = <<>>, caps |-> <<>>]
    ELSE LET e == Head(re) IN
         IF e.k = "c"
         THEN IF s # <<>> /\ Head(s) = e.c THEN FullMatch(Tail(re), Tail(s)) ELSE NoMatch
         ELSE LET n == NonSlashPrefix(s)
                  fits == {k \in 1..n : FullMatch(Tail(re), SubSeq(s, k + 1, Len(s))).ok}
              IN IF fits = {} THEN NoMatch
                 ELSE LET k == Max(fits)
                          rest == FullMatch(Tail(re), SubSeq(s, k + 1, Len(s)))
                      IN [ok |-> TRUE,
                          caps |-> <<[type |-> e.type, name |-> e.name,
                                      raw |-> SubSeq(s, 1, k)]>> \o rest.caps]

(***************************************************************************)
(* Conversion functions.                                                   *)
(***************************************************************************)
RECURSIVE ToInt(_)
ToInt(s) == IF s = <<>> THEN 0 ELSE 10 * ToInt(SubSeq(s, 1, Len(s) - 1)) + DigitValue(s[Len(s)])

IsDigits(s) == s # <<>> /\ \A i \in 1..Len(s) : s[i] \in Digits

\* int(s), str(s), float(s) (on the model's texts: digits, letters, '/'), and the
\* 'timestamp' entry of __default_types__
\* (url_class.py 11-21): datetime.fromtimestamp(int(s)).
ApplyFn(f, raw) ==
    CASE f = "int" -> IF IsDigits(raw) THEN Returned(IntVal(ToInt(raw))) ELSE Raised("ValueError")
      [] f = "str" -> Returned(StrVal(raw))
      [] f = "float" ->
            IF IsDigits(raw) THEN Returned([t |-> "float", n |-> ToInt(raw), s |-> <<>>])
            ELSE Raised("ValueError")
      [] f = "timestamp" ->
            IF IsDigits(raw) THEN Returned(DateTimeVal(ToInt(raw))) ELSE Raised("ValueError")

\* The tags of __default_types__ (url_class.py 11-21).
DefaultTypeTags == {"str", "strl", "stru", "int", "float", "date", "timestamp", "uuid", "base64"}

\* The names among them that globals()['__builtins__'] holds.
BuiltinNames == {"str", "int", "float"}

\* The type registry is a set of (tag, function) pairs, one per tag.
HasType(reg, t) == \E r \in reg : r.tag = t
TypeFn(reg, t) == (CHOOSE r \in reg : r.tag = t).fn

\* The conversion of one capture in Regex.find (url_class.py 198-206).
\* __default_types__ is not consulted: a tag outside the caller's registry is
\* looked up in the builtins dict, and a missing name raises KeyError there.
Convert(reg, t, raw) ==
    IF HasType(reg, t) THEN ApplyFn(TypeFn(reg, t), raw)
    ELSE IF t \in BuiltinNames THEN ApplyFn(t, raw)
    ELSE Raised("KeyError")

(***************************************************************************)
(* Registration.  A url argument is a str (form "str", its text in path)   *)
(* or a 2-tuple (form "tuple"; an element that is None or '' is <<>>), or  *)
(* neither (form "other").  add_route returns the grown list and the       *)
(* exception that ended the call, if any.                                  *)
(***************************************************************************)
StrUrl(p) == [form |-> "str", host |-> <<>>, path |-> p]
TupleUrl(h, p) == [form |-> "tuple", host |-> h, path |-> p]
OtherUrl == [form |-> "other", host |-> <<>>, path |-> <<>>]

Route(h, p, cls) == [host |-> h, path |-> p, cls |-> cls]

AddResult(list, exc) == [list |-> list, exc |-> exc]

\* One iteration of the loop of Regex.add_route (url_class.py 121-149).
\* A tuple is immutable: the assignments url[0] = ... (131) and url[1] = ...
\* (135) raise TypeError once their right-hand side has been evaluated.
RegexAddOne(list, cls, url) ==
    IF url.form = "tuple" THEN
        IF url.host # <<>> THEN
            AddResult(list, IF SubRaises(url.host) THEN "AttributeError" ELSE "TypeError")
        ELSE IF url.path # <<>> THEN
            IF url.path[1] = Slash
            THEN AddResult(list, IF SubRaises(Tail(url.path)) THEN "AttributeError"
                                 ELSE "TypeError")
            ELSE AddResult(list, "ValueError")
        ELSE AddResult(Append(list, Route(NoPattern, NoPattern, cls)), "")
    ELSE IF url.form = "str" THEN
        IF url.path = <<>> THEN AddResult(list, "IndexError")
        ELSE IF url.path[1] = Slash THEN
            IF SubRaises(Tail(url.path)) THEN AddResult(list, "AttributeError")
            ELSE IF CompileFails(Tail(url.path)) THEN AddResult(list, "re.error")
            ELSE AddResult(Append(list, Route(NoPattern, Compiled(Tail(url.path)), cls)), "")
        ELSE AddResult(list, "ValueError")
    ELSE AddResult(list, "ValueError")

\* A registration that is all or nothing: the list grows by every url when
\* none raises, and is left as it was when one does.
RegexAddRoute_atomic(list, cls, urls) ==
    LET bad == {i \in 1..Len(urls) : RegexAddOne(list, cls, urls[i]).exc # ""}
        first == CHOOSE i \in bad : \A j \in bad : i <= j
    IN IF bad # {} THEN AddResult(list, RegexAddOne(list, cls, urls[first]).exc)
       ELSE AddResult(list \o [i \in 1..Len(urls) |->
                                  RegexAddOne(<<>>, cls, urls[i]).list[1]], "")

\* Regex.add_route (url_class.py 85-149): the urls in order, until one raises.
RECURSIVE RegexAddRoute(_, _, _)
RegexAddRoute(list, cls, urls) ==
    IF urls = <<>> THEN AddResult(list, "")
    ELSE LET r == RegexAddOne(list, cls, Head(urls))
         IN IF r.exc # "" THEN r ELSE RegexAddRoute(r.list, cls, Tail(urls))

\* The rewriting of one template in Simple.add_route (url_class.py 290-308):
\* one leading and one trailing '/' are dropped, literal text is escaped,
\* each <type:name> becomes Regex.group(type, name), and '/' is put in front.
SimpleParse(url) ==
    LET u1 == IF Len(url) > 0 /\ url[1] = Slash THEN Tail(url) ELSE url
        u2 == IF Len(u1) > 0 /\ u1[Len(u1)] = Slash THEN SubSeq(u1, 1, Len(u1) - 1) ELSE u1
    IN <<Slash>> \o [i \in 1..Len(u2) |->
                        IF u2[i].k = "ph" THEN Group(u2[i].type, u2[i].name)
                        ELSE Ch(u2[i].c)]

\* Simple.add_route (url_class.py 273-310)
RECURSIVE SimpleAddRoute(_, _, _)
SimpleAddRoute(list, cls, urls) ==
    IF urls = <<>> THEN AddResult(list, "")
    ELSE LET url == Head(urls) IN
         IF url.form # "str" THEN AddResult(list, "TypeError")
         ELSE LET r == RegexAddRoute(list, cls, <<StrUrl(SimpleParse(url.path))>>)
              IN IF r.exc # "" THEN r ELSE SimpleAddRoute(r.list, cls, Tail(urls))

(***************************************************************************)
(* Matching.                                                               *)
(***************************************************************************)
\* dict.update with the captures of a match: a key already present keeps its
\* place and takes the new text.
RECURSIVE UpdateArgs(_, _)
UpdateArgs(args, caps) ==
    IF caps = <<>> THEN args
    ELSE LET c == Head(caps)
             at == {i \in 1..Len(args) : args[i].type = c.type /\ args[i].name = c.name}
             next == IF at = {} THEN Append(args, c)
                     ELSE [i \in 1..Len(args) |-> IF i \in at THEN c ELSE args[i]]
         IN UpdateArgs(next, Tail(caps))

\* ret_args[name] = value
SetArg(ret_args, name, value) ==
    IF \E i \in 1..Len(ret_args) : ret_args[i].name = name
    THEN [i \in 1..Len(ret_args) |->
            IF ret_args[i].name = name THEN [name |-> name, val |-> value] ELSE ret_args[i]]
    ELSE Append(ret_args, [name |-> name, val |-> value])

\* The conversion loop of Regex.find (url_class.py 195-208).
RECURSIVE ConvertArgs(_, _, _)
ConvertArgs(reg, args, ret_args) ==
    IF args = <<>> THEN [exc |-> "", args |-> ret_args]
    ELSE LET a == Head(args)
             v == Convert(reg, a.type, a.raw)
         IN IF v.exc # "" THEN [exc |-> v.exc, args |-> <<>>]
            ELSE ConvertArgs(reg, Tail(args), SetArg(ret_args, a.name, v.val))

\* cls not in handlers (url_class.py 211): handlers holds (cls, ret_args)
\* tuples, and a handler object is equal to no tuple.
HandlerEqualsEntry(cls, entry) == FALSE

NotInHandlers(cls, hs) == ~ \E i \in 1..Len(hs) : HandlerEqualsEntry(cls, hs[i])

NoHost == [none |-> TRUE, s |-> <<>>]
Host(s) == [none |-> FALSE, s |-> s]

FindResult(exc, list) == [exc |-> exc, list |-> list]

\* Regex.find (url_class.py 151-214), from route i on, hs being the list
\* built so far.
RECURSIVE RegexFindFrom(_, _, _, _, _, _)
RegexFindFrom(list, reg, host, path, i, hs) ==
    IF i > Len(list) THEN FindResult("", hs)
    ELSE LET u == list[i] IN
         IF ~u.host.none /\ host.none THEN FindResult("TypeError", <<>>)
         ELSE LET m1 == IF u.host.none THEN NoMatch ELSE FullMatch(u.host.re, host.s)
                  m2 == IF u.path.none THEN NoMatch ELSE FullMatch(u.path.re, path)
                  args == UpdateArgs(UpdateArgs(<<>>, m1.caps), m2.caps)
              IN IF m1.ok \/ m2.ok
                 THEN LET conv == ConvertArgs(reg, args, <<>>)
                      IN IF conv.exc # "" THEN FindResult(conv.exc, <<>>)
                         ELSE RegexFindFrom(list, reg, host, path, i + 1,
                                  IF NotInHandlers(u.cls, hs)
                                  THEN Append(hs, [cls |-> u.cls, args |-> conv.args])
                                  ELSE hs)
                 ELSE RegexFindFrom(list, reg, host, path, i + 1, hs)

RegexFind(list, reg, host, path) == RegexFindFrom(list, reg, host, path, 1, <<>>)

(***************************************************************************)
(* Handlers and hooks.  A hook attribute name is prefix + '_' + method:    *)
(* Hook("before", "") is before, Hook("", "get") is get,                   *)
(* Hook("after", "get") is after_get.                                      *)
(***************************************************************************)
Handlers == {"A", "B"}

Hook(pre, m) == [pre |-> pre, m |-> m]

\* Methods['http_methods'] (aspyre.py 9-12)
HttpMethods == {"get", "post", "put", "patch", "delete"}

\* Methods['callable'] (aspyre.py 14-18)
CallableHooks ==
    {Hook("", m) : m \in HttpMethods} \cup {Hook("before", ""), Hook("after", "")}
    \cup {Hook(pre, m) : pre \in {"before", "after"}, m \in HttpMethods}

\* The hook sets a handler of the model may expose.
HookProfiles == {CallableHooks, {Hook("before", ""), Hook("after", "get")}}

(***************************************************************************)
(* Aspyre.find (aspyre.py 68-99): the five stages, in the order of the     *)
(* OrderedDict: before, before_<method>, <method>, after_<method>, after.  *)
(***************************************************************************)
Entry(h, hook, args) == [h |-> h, hook |-> hook, args |-> args]

EmptyStages == <<<<>>, <<>>, <<>>, <<>>, <<>>>>

NoChain == [exc |-> "", none |-> TRUE, stages |-> EmptyStages]

\* callable(getattr(handler, name, None))
Exposes(hk, h, hook) == hook \in hk[h]

\* One iteration of the loop at aspyre.py 82-95.  Line 93 reads
\* getattr(handler, method), not getattr(handler, after): the after_<method>
\* stage receives the handler's <method> hook, and the lookup raises
\* AttributeError when the handler has no <method> attribute.
ResolveOne(hk, method, st, fh) ==
    LET h == fh.cls
        a == fh.args
        s1 == IF Exposes(hk, h, Hook("before", ""))
              THEN Append(st[1], Entry(h, Hook("before", ""), a)) ELSE st[1]
        s2 == IF Exposes(hk, h, Hook("before", method))
              THEN Append(st[2], Entry(h, Hook("before", method), a)) ELSE st[2]
        s3 == IF Exposes(hk, h, Hook("", method))
              THEN Append(st[3], Entry(h, Hook("", method), a)) ELSE st[3]
        s4 == IF Exposes(hk, h, Hook("after", method))
              THEN <<Entry(h, Hook("", method), a)>> \o st[4] ELSE st[4]
        s5 == IF Exposes(hk, h, Hook("after", ""))
              THEN <<Entry(h, Hook("after", ""), a)>> \o st[5] ELSE st[5]
    IN IF Exposes(hk, h, Hook("after", method)) /\ ~Exposes(hk, h, Hook("", method))
       THEN [exc |-> "AttributeError", stages |-> st]
       ELSE [exc |-> "", stages |-> <<s1, s2, s3, s4, s5>>]

RECURSIVE Resolve(_, _, _, _)
Resolve(hk, method, st, fhs) ==
    IF fhs = <<>> THEN [exc |-> "", stages |-> st]
    ELSE LET r == ResolveOne(hk, method, st, Head(fhs))
         IN IF r.exc # "" THEN r ELSE Resolve(hk, method, r.stages, Tail(fhs))

\* Aspyre.find, given what url_class.find returned or raised.
AspyreFind(hk, method, fr) ==
    IF fr.exc # "" THEN [exc |-> fr.exc, none |-> TRUE, stages |-> EmptyStages]
    ELSE IF fr.list # <<>>
    THEN LET r == Resolve(hk, method, EmptyStages, fr.list)
         IN IF r.exc # "" THEN [exc |-> r.exc, none |-> TRUE, stages |-> EmptyStages]
            ELSE [exc |-> "", none |-> FALSE, stages |-> r.stages]
    ELSE NoChain

\* The order in which the two loops at aspyre.py 112-113 visit the entries.
Chain(hs) == hs.stages[1] \o hs.stages[2] \o hs.stages[3] \o hs.stages[4] \o hs.stages[5]

\* *arguments (aspyre.py 119): arguments is the dict ret_args, and unpacking a
\* dict yields its keys, so the hook receives the argument names as
\* positional values.
Positional(args) == [i \in 1..Len(args) |-> StrVal(args[i].name)]

(***************************************************************************)
(* The inputs of the model.                                                *)
(***************************************************************************)
\* '/products/<int:product_id>', 'products/<int:product_id>',
\* '/<str:name>/1234', '/products/<timestamp:product_id>'
Tpl_products == <<Slash>> \o Lit(T_products) \o <<Slash, Placeholder("int", T_product_id)>>
Tpl_noslash == Lit(T_products) \o <<Slash, Placeholder("int", T_product_id)>>
Tpl_name == <<Slash, Placeholder("str", T_name), Slash>> \o Lit(T_1234)
Tpl_timestamp ==
    <<Slash>> \o Lit(T_products) \o <<Slash, Placeholder("timestamp", T_product_id)>>

\* '/products/<slug:product_id>': the tag 'slug' is no key of
\* __default_types__ and of no registry of the model.
Tpl_slug == <<Slash>> \o Lit(T_products) \o <<Slash, Placeholder("slug", T_product_id)>>

\* '/products/' + Regex.group('int', 'product_id'), 'products',
\* '/products/(?P<int:product_id>[^\/]+)', and the host 'h.io'
Re_products == <<Slash>> \o Lit(T_products) \o <<Slash, Group("int", T_product_id)>>
Re_noslash == Lit(T_products)
Re_colon == <<Slash>> \o Lit(T_products) \o <<Slash, ColonGroup("int", T_product_id)>>
Re_host == Lit(T_host)

SimpleUrlLists ==
    {<<StrUrl(Tpl_products)>>, <<StrUrl(Tpl_noslash)>>, <<StrUrl(Tpl_name)>>,
     <<StrUrl(Tpl_timestamp)>>, <<StrUrl(Tpl_slug)>>, <<OtherUrl>>,
     <<StrUrl(Tpl_products), StrUrl(Tpl_name)>>, <<StrUrl(Tpl_name), OtherUrl>>,
     <<OtherUrl, StrUrl(Tpl_name)>>}

RegexUrlLists ==
    {<<StrUrl(Re_products)>>, <<StrUrl(Re_noslash)>>, <<StrUrl(Re_colon)>>,
     <<TupleUrl(Re_host, Re_products)>>, <<TupleUrl(<<>>, Re_products)>>,
     <<TupleUrl(<<>>, <<>>)>>,
     <<StrUrl(Re_products), StrUrl(Re_noslash)>>,
     <<StrUrl(Re_noslash), StrUrl(Re_products)>>}

\* '/products/1234', 'products/1234', 'products/abc', 'abc'
P_slash_products_1234 == <<"/">> \o T_products \o <<"/">> \o T_1234
P_products_1234 == T_products \o <<"/">> \o T_1234
P_products_abc == T_products \o <<"/">> \o T_abc
P_abc == T_abc

RequestPaths == {P_slash_products_1234, P_products_1234, P_products_abc, P_abc}
RequestHosts == {NoHost, Host(T_host)}
RequestMethods == {"get", "post", "head", "options"}

\* Caller-supplied type registries: none, and one that registers 'timestamp'
\* as plain int.
TypeRegistries == {{}, {[tag |-> "timestamp", fn |-> "int"]}}

\* What a hook may do when invoked: return None, return an integer, raise a
\* DomainError (error.Error) with reraise true or false, raise anything else.
HookOutcomes ==
    {[kind |-> "none", exc |-> "", code |-> 0, reraise |-> FALSE],
     [kind |-> "int", exc |-> "", code |-> 201, reraise |-> FALSE],
     [kind |-> "domain", exc |-> "Error", code |-> 403, reraise |-> TRUE],
     [kind |-> "domain", exc |-> "Error", code |-> 403, reraise |-> FALSE],
     [kind |-> "other", exc |-> "KeyError", code |-> 0, reraise |-> FALSE]}

(***************************************************************************)
(* State.                                                                  *)
(***************************************************************************)
\* The status codes of error.NotFound and error.NotImplemented
\* (error.py 26, 43, 75-89).
NotFoundCode == 404
NotImplementedCode == 501

NoResult == [how |-> "none", exc |-> "", http_code |-> 0, encoded |-> ""]
RaisedResult(e, code) == [how |-> "raised", exc |-> e, http_code |-> code, encoded |-> ""]
ReturnedResult(enc) == [how |-> "returned", exc |-> "", http_code |-> 0, encoded |-> enc]

ApiCall(op, cls, urls, host, path, method) ==
    [op |-> op, cls |-> cls, urls |-> urls, host |-> host, path |-> path, method |-> method]
NoCall == ApiCall("none", "", <<>>, NoHost, <<>>, "")

EmptyDict == [k \in {} |-> NoneVal]
DictSet(d, key, v) == [k \in DOMAIN d \cup {key} |-> IF k = key THEN v ELSE d[k]]

NoFind == FindResult("", <<>>)

\* The dictionary variables while no dictionary object is in use.
NoObject == [cls |-> "", d |-> <<>>]
NoDictCall == [op |-> "none", key |-> <<>>, val |-> NoneVal, version |-> 0, n |-> 0]
NoDictResult ==
    [exc |-> "", ret |-> [key |-> <<>>, kind |-> "none", val |-> NoneVal, list |-> <<>>],
     obj |-> NoObject]
NothingSaved == [valid |-> FALSE, d |-> <<>>, count |-> 0, ever |-> FALSE]

\* The concurrent requests: their identities, and a request that has not
\* been dispatched.
Requests == {1, 2}

NoRequest ==
    [pc |-> "idle", path |-> <<>>, method |-> "", handlers |-> NoChain, pos |-> 0,
     context |-> EmptyDict, log |-> <<>>, result |-> NoResult, overlap |-> FALSE]

DictIdle ==
    /\ ctx = NoObject
    /\ other = NoObject
    /\ dcall = NoDictCall
    /\ dres = NoDictResult
    /\ saved = NothingSaved
    /\ reqs = [r \in Requests |-> NoRequest]

Init ==
    /\ url_list = <<>>
    /\ types \in TypeRegistries
    /\ hooks \in [Handlers -> HookProfiles]
    /\ dict_class \in {"unset", "AspyreDict"}
    /\ call = NoCall
    /\ pc = "idle"
    /\ found = NoFind
    /\ handlers = NoChain
    /\ pos = 0
    /\ context = EmptyDict
    /\ log = <<>>
    /\ result = NoResult
    /\ DictIdle

\* Registration comes first (every add_route call completes before a request
\* is dispatched), and a behaviour follows one request from then on: a request
\* changes nothing that a later one reads.
Serving == call.op \notin {"none", "Simple.add_route", "Regex.add_route"}

\* What every new API call leaves of the previous one.
Fresh ==
    /\ pos' = 0
    /\ context' = EmptyDict
    /\ log' = <<>>

(***************************************************************************)
(* Registration.                                                           *)
(***************************************************************************)
AddRouteResult(r) == IF r.exc = "" THEN ReturnedResult("") ELSE RaisedResult(r.exc, 0)

SimpleAdd(cls, urls) ==
    /\ ~Serving
    /\ Len(url_list) + Len(urls) <= MaxRoutes
    /\ LET r == SimpleAddRoute(url_list, cls, urls)
       IN /\ url_list' = r.list
          /\ result' = AddRouteResult(r)
    /\ call' = ApiCall("Simple.add_route", cls, urls, NoHost, <<>>, "")
    /\ found' = NoFind
    /\ handlers' = NoChain
    /\ Fresh
    /\ UNCHANGED <<types, hooks, dict_class, pc>>
    /\ UNCHANGED <<dvars, reqs>>

RegexAdd(cls, urls) ==
    /\ ~Serving
    /\ Len(url_list) + Len(urls) <= MaxRoutes
    /\ LET r == RegexAddRoute(url_list, cls, urls)
       IN /\ url_list' = r.list
          /\ result' = AddRouteResult(r)
    /\ call' = ApiCall("Regex.add_route", cls, urls, NoHost, <<>>, "")
    /\ found' = NoFind
    /\ handlers' = NoChain
    /\ Fresh
    /\ UNCHANGED <<types, hooks, dict_class, pc>>
    /\ UNCHANGED <<dvars, reqs>>

(***************************************************************************)
(* Dispatch.                                                               *)
(***************************************************************************)
\* Aspyre.__call__ (aspyre.py 58-66).  self.find is a coroutine function and
\* is called without await: handlers is a coroutine object, which is true,
\* and find's body does not run.  self.handle is then called with three
\* arguments for its four parameters, which raises TypeError.
Dispatch(host, path, method) ==
    /\ ~Serving
    /\ call' = ApiCall("Aspyre.__call__", "", <<>>, host, path, method)
    /\ result' = IF method \notin HttpMethods
                 THEN RaisedResult("NotImplemented", NotImplementedCode)
                 ELSE RaisedResult("TypeError", 0)
    /\ found' = NoFind
    /\ handlers' = NoChain
    /\ Fresh
    /\ UNCHANGED <<url_list, types, hooks, dict_class, pc>>
    /\ UNCHANGED <<dvars, reqs>>

\* AspyreGroup.__call__ (aspyre.py 196-202).  self.find is Find.first (or
\* Find.best), a coroutine function called without await: unpacking the
\* coroutine object into handlers, instance raises TypeError.  The method is
\* not looked at.
GroupDispatch(host, path, method) ==
    /\ ~Serving
    /\ call' = ApiCall("AspyreGroup.__call__", "", <<>>, host, path, method)
    /\ result' = RaisedResult("TypeError", 0)
    /\ found' = NoFind
    /\ handlers' = NoChain
    /\ Fresh
    /\ UNCHANGED <<url_list, types, hooks, dict_class, pc>>
    /\ UNCHANGED <<dvars, reqs>>

\* await Aspyre.find(host, path, method) (aspyre.py 68-99)
Find(host, path, method) ==
    /\ ~Serving
    /\ call' = ApiCall("Aspyre.find", "", <<>>, host, path, method)
    /\ LET fr == RegexFind(url_list, types, host, path)
           hs == AspyreFind(hooks, method, fr)
       IN /\ found' = fr
          /\ handlers' = hs
          /\ result' = IF hs.exc # "" THEN RaisedResult(hs.exc, 0) ELSE ReturnedResult("")
    /\ Fresh
    /\ UNCHANGED <<url_list, types, hooks, dict_class, pc>>
    /\ UNCHANGED <<dvars, reqs>>

\* Aspyre.handle(handlers, input, headers, query_string) with the value find
\* returned, up to the first hook (aspyre.py 101-110).  The name error is
\* assigned at line 127 and is therefore local to handle: reading it at line
\* 103 raises UnboundLocalError.  __init__ (47-56) drops its dict_class
\* argument, so self.dict_class exists only when the instance was given one
\* by other means (a subclass that defines it, or an assignment by the
\* integrator); Init covers both.
HandleBegin ==
    /\ pc = "idle"
    /\ call.op = "Aspyre.find"
    /\ result.how = "returned"
    /\ call' = [call EXCEPT !.op = "Aspyre.handle"]
    /\ log' = <<>>
    /\ IF handlers.none THEN
            /\ result' = RaisedResult("UnboundLocalError", 0)
            /\ UNCHANGED <<pc, pos, context>>
       ELSE IF dict_class = "unset" THEN
            /\ result' = RaisedResult("AttributeError", 0)
            /\ UNCHANGED <<pc, pos, context>>
       ELSE /\ pc' = "handling"
            /\ pos' = 1
            /\ context' = DictSet(DictSet(EmptyDict, "arguments", NoneVal), "headers", NoneVal)
            /\ result' = NoResult
    /\ UNCHANGED <<url_list, types, hooks, dict_class, found, handlers>>
    /\ UNCHANGED <<dvars, reqs>>

StatusReturns(l) == Cardinality({i \in 1..Len(l) : l[i].out.kind = "int"})

Invocation(e, out) == [h |-> e.h, hook |-> e.hook, args |-> Positional(e.args), out |-> out]

\* One iteration of the loops of Aspyre.handle (aspyre.py 112-144): the hook
\* is awaited and ends as out says.  When it raises, the except clause at
\* line 123 evaluates error.Error with error an unassigned local (line 127
\* is its only assignment, inside that handler), so UnboundLocalError leaves
\* handle whatever was raised: lines 124-144 are never reached.
HandleHook(out) ==
    /\ pc = "handling"
    /\ pos <= Len(Chain(handlers))
    /\ out.kind = "int" => StatusReturns(log) < MaxStatusReturns
    /\ log' = Append(log, Invocation(Chain(handlers)[pos], out))
    /\ IF out.kind = "none" THEN
            /\ pos' = pos + 1
            /\ UNCHANGED <<pc, context, result>>
       ELSE IF out.kind = "int" THEN
            /\ pos' = pos + 1
            /\ context' = DictSet(context, "http_code", IntVal(out.code))
            /\ UNCHANGED <<pc, result>>
       ELSE /\ pc' = "idle"
            /\ result' = RaisedResult("UnboundLocalError", 0)
            /\ UNCHANGED <<pos, context>>
    /\ UNCHANGED <<url_list, types, hooks, dict_class, call, found, handlers>>
    /\ UNCHANGED <<dvars, reqs>>

\* aspyre.py 146
HandleReturn ==
    /\ pc = "handling"
    /\ pos > Len(Chain(handlers))
    /\ pc' = "idle"
    /\ result' = ReturnedResult("response")
    /\ UNCHANGED <<url_list, types, hooks, dict_class, call, found, handlers, pos, context, log>>
    /\ UNCHANGED <<dvars, reqs>>

Next ==
    \/ \E cls \in Handlers, urls \in SimpleUrlLists : SimpleAdd(cls, urls)
    \/ \E cls \in Handlers, urls \in RegexUrlLists : RegexAdd(cls, urls)
    \/ \E host \in RequestHosts, path \in RequestPaths, method \in RequestMethods :
          \/ Dispatch(host, path, method)
          \/ GroupDispatch(host, path, method)
          \/ Find(host, path, method)
    \/ HandleBegin
    \/ \E out \in HookOutcomes : HandleHook(out)
    \/ HandleReturn

Spec == Init /\ [][Next]_<<vars, dvars, reqs>>

(***************************************************************************)
(* dictionary.py: AspyreDictImmutable, AspyreDict, AspyreDictHistory.      *)
(* An object is its class and its __dict__, an ordered list of entries.    *)
(* The history lives in __dict__ under the key '__history' like any other  *)
(* entry; its value is a list whose elements are objects: the element that *)
(* is the object named ref itself (ref "ctx" or "other"), or a snapshot    *)
(* made by save(), held by value with its own __dict__.                    *)
(***************************************************************************)
AsciiLowercase ==
    <<"a", "b", "c", "d", "e", "f", "g", "h", "i", "j", "k", "l", "m",
      "n", "o", "p", "q", "r", "s", "t", "u", "v", "w", "x", "y", "z">>

AsciiUppercase ==
    <<"A", "B", "C", "D", "E", "F", "G", "H", "I", "J", "K", "L", "M",
      "N", "O", "P", "Q", "R", "S", "T", "U", "V", "W", "X", "Y", "Z">>

\* str.lower(), character by character
LowerOf ==
    [c \in {AsciiUppercase[i] : i \in DOMAIN AsciiUppercase} |->
        AsciiLowercase[CHOOSE i \in DOMAIN AsciiUppercase : AsciiUppercase[i] = c]]

LowerChar(c) == IF c \in DOMAIN LowerOf THEN LowerOf[c] ELSE c

StrLower(s) == [i \in 1..Len(s) |-> LowerChar(s[i])]

LowercaseLetters == {AsciiLowercase[i] : i \in DOMAIN AsciiLowercase}

InAsciiLowercase(c) == c \in LowercaseLetters

\* ''.join(char for char in str(key).lower() if char in string.ascii_lowercase)
NormalKey(key) == SelectSeq(StrLower(key), InAsciiLowercase)

\* The key '__history'.
HistoryKey == <<"_", "_", "h", "i", "s", "t", "o", "r", "y">>

ValEntry(k, v) == [key |-> k, kind |-> "val", val |-> v, list |-> <<>>]
ListEntry(k, l) == [key |-> k, kind |-> "list", val |-> NoneVal, list |-> l]

SelfRef(name) == [ref |-> name, d |-> <<>>]
Snapshot(d) == [ref |-> "", d |-> d]

Object(cls, d) == [cls |-> cls, d |-> d]

\* Operations of the builtin dict that is __dict__: key in d, d[key],
\* d[key] = entry (a present key keeps its place), del d[key].
Min(S) == CHOOSE x \in S : \A y \in S : x <= y
HasKey(d, k) == \E i \in 1..Len(d) : d[i].key = k
PosOf(d, k) == Min({i \in 1..Len(d) : d[i].key = k})
DictItem(d, k) == d[PosOf(d, k)]
DictPut(d, e) ==
    IF HasKey(d, e.key) THEN [d EXCEPT ![PosOf(d, e.key)] = e] ELSE Append(d, e)
DictDel(d, k) == SelectSeq(d, LAMBDA e : e.key # k)

\* The constructor argument old_dict: None, a plain dict, or an object of
\* one of the three classes.
NoArg == [form |-> "none", obj |-> NoObject]
MappingArg(d) == [form |-> "mapping", obj |-> Object("dict", d)]
ObjectArg(o) == [form |-> "object", obj |-> o]

\* AspyreDictImmutable.__init__ (dictionary.py 6-17): the new __dict__.
Immutable_init(old) ==
    CASE old.form = "object" -> DictDel(old.obj.d, HistoryKey)
      [] old.form = "mapping" -> old.obj.d
      [] old.form = "none" -> <<ListEntry(HistoryKey, <<>>)>>

Built(exc, obj) == [exc |-> exc, obj |-> obj]

\* AspyreDictHistory.__init__ (dictionary.py 154-160); self is the name of
\* the object being built.
History_init(self, old) ==
    LET d == Immutable_init(old) IN
    IF old.form = "object" /\ old.obj.cls = "AspyreDictHistory" THEN
        IF ~HasKey(old.obj.d, HistoryKey) THEN Built("KeyError", NoObject)
        ELSE IF DictItem(old.obj.d, HistoryKey).kind # "list" THEN Built("TypeError", NoObject)
        ELSE Built("", Object("AspyreDictHistory",
                       DictPut(d, ListEntry(HistoryKey, DictItem(old.obj.d, HistoryKey).list))))
    ELSE Built("", Object("AspyreDictHistory",
                   DictPut(d, ListEntry(HistoryKey, <<SelfRef(self)>>))))

\* cls(old_dict), for the object named self
New(cls, self, old) ==
    IF cls = "AspyreDictHistory" THEN History_init(self, old)
    ELSE Built("", Object(cls, Immutable_init(old)))

\* AspyreDictImmutable.__find_key__ (dictionary.py 19-26)
Immutable_find_key(d, key) ==
    LET hits == {i \in 1..Len(d) : NormalKey(key) = NormalKey(d[i].key)}
    IN IF hits = {} THEN [found |-> FALSE, key |-> key]
       ELSE [found |-> TRUE, key |-> d[Min(hits)].key]

\* AspyreDictHistory.__find_key__ (dictionary.py 162-172): the normalized
\* key is compared with the stored keys as they are.
History_find_key(d, key) ==
    LET hits == {i \in 1..Len(d) : d[i].key # HistoryKey /\ NormalKey(key) = d[i].key}
    IN IF hits = {} THEN [found |-> FALSE, key |-> key]
       ELSE [found |-> TRUE, key |-> d[Min(hits)].key]

\* self.__class__.__find_key__(self, key)
Class_find_key(o, key) ==
    IF o.cls = "AspyreDictHistory" THEN History_find_key(o.d, key)
    ELSE Immutable_find_key(o.d, key)

\* What an operation returns, as an entry without key.
Ret(v) == ValEntry(<<>>, v)
BoolVal(b) == [t |-> "bool", n |-> IF b THEN 1 ELSE 0, s |-> <<>>]

\* AspyreDictImmutable.__getitem__ (dictionary.py 28-33)
Immutable_getitem(o, key) ==
    LET f == Class_find_key(o, key)
    IN IF f.found THEN [DictItem(o.d, f.key) EXCEPT !.key = <<>>] ELSE Ret(NoneVal)

\* AspyreDictHistory.__getitem__ (dictionary.py 174-179)
History_getitem(o, key) ==
    IF StrLower(key) = HistoryKey THEN Ret(NoneVal) ELSE Immutable_getitem(o, key)

\* self[key]
Class_getitem(o, key) ==
    IF o.cls = "AspyreDictHistory" THEN History_getitem(o, key) ELSE Immutable_getitem(o, key)

\* key in self (dictionary.py 41-43)
Class_contains(o, key) == Class_find_key(o, key).found

\* An operation that may change __dict__: the exception that ended it, the
\* __dict__ it leaves, and what it returned.
Changed(exc, d, ret) == [exc |-> exc, d |-> d, ret |-> ret]

\* AspyreDict.__setitem__ (dictionary.py 143-150), for a value that is not a
\* dict: super().__find_key__ is AspyreDictImmutable.__find_key__, which
\* also looks at the entry '__history'.
Dict_setitem(d, key, v) == DictPut(d, ValEntry(Immutable_find_key(d, key).key, v))

\* AspyreDict.__delitem__ (dictionary.py 137-141)
Dict_delitem(d, key) ==
    LET f == Immutable_find_key(d, key)
    IN IF f.found THEN DictDel(d, f.key) ELSE d

\* self[key] = v: AspyreDictImmutable.__setitem__ (38-39),
\* AspyreDict.__setitem__, AspyreDictHistory.__setitem__ (181-186).
History_setitem(o, key, v) ==
    IF StrLower(key) = HistoryKey THEN Changed("AttributeError", o.d, Ret(NoneVal))
    ELSE Changed("", Dict_setitem(o.d, key, v), Ret(NoneVal))

\* An item assignment that stores the value as AspyreDict does.
Immutable_setitem_stores(o, key, v) == Changed("", Dict_setitem(o.d, key, v), Ret(NoneVal))

Immutable_setitem(o, key, v) == Changed("TypeError", o.d, Ret(NoneVal))

Class_setitem(o, key, v) ==
    CASE o.cls = "AspyreDictImmutable" -> Immutable_setitem(o, key, v)
      [] o.cls = "AspyreDict" -> Changed("", Dict_setitem(o.d, key, v), Ret(NoneVal))
      [] o.cls = "AspyreDictHistory" -> History_setitem(o, key, v)

\* del self[key]: AspyreDictImmutable.__delitem__ (35-36),
\* AspyreDict.__delitem__, AspyreDictHistory.__delitem__ (188-193).
History_delitem(o, key) ==
    IF StrLower(key) = HistoryKey THEN Changed("AttributeError", o.d, Ret(NoneVal))
    ELSE Changed("", Dict_delitem(o.d, key), Ret(NoneVal))

Immutable_delitem(o, key) == Changed("TypeError", o.d, Ret(NoneVal))

Class_delitem(o, key) ==
    CASE o.cls = "AspyreDictImmutable" -> Immutable_delitem(o, key)
      [] o.cls = "AspyreDict" -> Changed("", Dict_delitem(o.d, key), Ret(NoneVal))
      [] o.cls = "AspyreDictHistory" -> History_delitem(o, key)

\* AspyreDictHistory.save (dictionary.py 214-216).  self.__dict__['__history']
\* and its attribute append are evaluated before the copy is made.
save(o) ==
    IF ~HasKey(o.d, HistoryKey) THEN Changed("KeyError", o.d, Ret(NoneVal))
    ELSE IF DictItem(o.d, HistoryKey).kind # "list"
    THEN Changed("AttributeError", o.d, Ret(NoneVal))
    ELSE LET history == DictItem(o.d, HistoryKey).list
             copy == History_init("", ObjectArg(o)).obj
             grown == Append(history, Snapshot(copy.d))
         IN Changed("", DictPut(o.d, ListEntry(HistoryKey, grown)), Ret(IntVal(Len(grown))))

\* AspyreDictHistory.rollback (dictionary.py 205-212).  version indexes the
\* list as Python does: from 0, negative values from the end.  When the
\* element is the object itself, state.__dict__ is self.__dict__: the entry
\* '__history' is deleted from it, it is cleared, updated with itself (now
\* empty) and given the list back.
rollback(o, version) ==
    IF ~HasKey(o.d, HistoryKey) THEN Changed("KeyError", o.d, Ret(NoneVal))
    ELSE IF DictItem(o.d, HistoryKey).kind # "list"
    THEN Changed("TypeError", o.d, Ret(NoneVal))
    ELSE LET list == DictItem(o.d, HistoryKey).list
             idx == IF version < 0 THEN Len(list) + version + 1 ELSE version + 1
         IN IF idx < 1 \/ idx > Len(list) THEN Changed("IndexError", o.d, Ret(NoneVal))
            ELSE LET state == list[idx] IN
                 IF state.ref # "" THEN
                    Changed("", <<ListEntry(HistoryKey, list)>>, Ret(NoneVal))
                 ELSE IF ~HasKey(state.d, HistoryKey)
                 THEN Changed("KeyError", o.d, Ret(NoneVal))
                 ELSE Changed("",
                              Append(DictDel(state.d, HistoryKey),
                                     ListEntry(HistoryKey, DictItem(state.d, HistoryKey).list)),
                              Ret(NoneVal))

\* value != other[key] (dictionary.py 126).  A list is equal to a list of
\* the same length whose elements are the same objects.
ValuesDiffer(e, g) == e.kind # g.kind \/ e.val # g.val \/ e.list # g.list

\* AspyreDictImmutable.__eq__ (dictionary.py 121-133), self == other for two
\* objects of the three classes.  The first loop runs over every key of
\* self.__dict__, '__history' included; key in other and other[key] are
\* other's __contains__ and __getitem__.
Class_eq(self, oth) ==
    /\ \A i \in 1..Len(self.d) :
          /\ Class_contains(oth, self.d[i].key)
          /\ ~ValuesDiffer([self.d[i] EXCEPT !.key = <<>>], Class_getitem(oth, self.d[i].key))
    /\ \A j \in 1..Len(oth.d) : Class_contains(self, oth.d[j].key)

\* c1 is a proper subclass of c2 (dictionary.py 5, 136, 153).
ProperSubclass(c1, c2) ==
    \/ c1 = "AspyreDict" /\ c2 = "AspyreDictImmutable"
    \/ c1 = "AspyreDictHistory" /\ c2 \in {"AspyreDictImmutable", "AspyreDict"}

\* The expression left == right: when right's class is a proper subclass of
\* left's, Python calls right.__eq__(left) first.
Eq(left, right) ==
    IF ProperSubclass(right.cls, left.cls) THEN Class_eq(right, left)
    ELSE Class_eq(left, right)

\* MutableMapping.update(other) on result for a plain dict: result[key] =
\* other[key] for each key in turn, until one assignment raises.
RECURSIVE Update(_, _)
Update(res, m) ==
    IF m = <<>> THEN Built("", res)
    ELSE LET r == Class_setitem(res, Head(m).key, Head(m).val)
         IN IF r.exc # "" THEN Built(r.exc, NoObject)
            ELSE Update(Object(res.cls, r.d), Tail(m))

\* AspyreDictImmutable.__add__ (dictionary.py 84-89), other a plain dict
Class_add(self, m) ==
    LET copy == New(self.cls, "result", ObjectArg(self))
    IN IF copy.exc # "" THEN copy ELSE Update(copy.obj, m)

\* AspyreDictImmutable.__sub__ (dictionary.py 102-108), other a str
Class_sub(self, key) ==
    LET copy == New(self.cls, "result", ObjectArg(self))
    IN IF copy.exc # "" THEN copy
       ELSE IF ~Class_contains(copy.obj, key) THEN copy
       ELSE IF ~HasKey(copy.obj.d, key) THEN Built("KeyError", NoObject)
       ELSE Built("", Object(self.cls, DictDel(copy.obj.d, key)))

(***************************************************************************)
(* Inputs and bounds of the dictionary operations.                         *)
(***************************************************************************)
MaxOps == 3        \* operations made on one context
MaxVersions == 3   \* length to which save() may grow the history

\* 'Content-Type', 'contenttype', 'history'
K_ContentType == <<"C", "o", "n", "t", "e", "n", "t", "-", "T", "y", "p", "e">>
K_contenttype == <<"c", "o", "n", "t", "e", "n", "t", "t", "y", "p", "e">>
K_history == <<"h", "i", "s", "t", "o", "r", "y">>

Keys == {K_ContentType, K_contenttype, K_history, HistoryKey}
Values == {IntVal(1), IntVal(2)}
Classes == {"AspyreDictImmutable", "AspyreDict", "AspyreDictHistory"}
Versions == {-1, 0, 1, 2, 3}

\* {}, {'Content-Type': 1}, {'contenttype': 1}
Mappings == {<<>>, <<ValEntry(K_ContentType, IntVal(1))>>, <<ValEntry(K_contenttype, IntVal(1))>>}

\* The non-reserved part of a __dict__: the stored keys other than
\* '__history' with their values.
NonReserved(d) == {[key |-> d[i].key, val |-> d[i].val] : i \in {j \in 1..Len(d) : d[j].key # HistoryKey}}

\* len(self.__dict__['__history']) (get_current_version, dictionary.py 202-203)
get_current_version(o) == Len(DictItem(o.d, HistoryKey).list)

(***************************************************************************)
(* The dictionary operations as actions on ctx.                            *)
(***************************************************************************)
DictCall(op, key, v, version) ==
    [op |-> op, key |-> key, val |-> v, version |-> version, n |-> dcall.n + 1]

DictResult(exc, ret, obj) == [exc |-> exc, ret |-> ret, obj |-> obj]

DictInit ==
    /\ url_list = <<>>
    /\ types = {}
    /\ hooks = [h \in Handlers |-> {}]
    /\ dict_class = "unset"
    /\ call = NoCall
    /\ pc = "idle"
    /\ found = NoFind
    /\ handlers = NoChain
    /\ pos = 0
    /\ context = EmptyDict
    /\ log = <<>>
    /\ result = NoResult
    /\ ctx \in {New(cls, "ctx", a).obj :
                    cls \in Classes, a \in {NoArg} \cup {MappingArg(m) : m \in Mappings}}
    /\ other = NoObject
    /\ dcall = NoDictCall
    /\ dres = NoDictResult
    /\ saved = NothingSaved
    /\ reqs = [r \in Requests |-> NoRequest]

\* An operation that may change ctx.__dict__ ended as r says.
Apply(r) ==
    /\ ctx' = Object(ctx.cls, r.d)
    /\ dres' = DictResult(r.exc, r.ret, NoObject)

\* ctx[key]
GetItem(key) ==
    /\ dcall.n < MaxOps
    /\ dcall' = DictCall("getitem", key, NoneVal, 0)
    /\ dres' = DictResult("", Class_getitem(ctx, key), NoObject)
    /\ UNCHANGED <<ctx, other, saved>>
    /\ UNCHANGED <<vars, reqs>>

\* ctx[key] = v
SetItem(key, v) ==
    /\ dcall.n < MaxOps
    /\ dcall' = DictCall("setitem", key, v, 0)
    /\ Apply(Class_setitem(ctx, key, v))
    /\ UNCHANGED <<other, saved>>
    /\ UNCHANGED <<vars, reqs>>

\* del ctx[key]
DelItem(key) ==
    /\ dcall.n < MaxOps
    /\ dcall' = DictCall("delitem", key, NoneVal, 0)
    /\ Apply(Class_delitem(ctx, key))
    /\ UNCHANGED <<other, saved>>
    /\ UNCHANGED <<vars, reqs>>

\* setattr(ctx, key, v): __setattr__ (dictionary.py 57-58) is
\* self.__class__.__setitem__
SetAttr(key, v) ==
    /\ dcall.n < MaxOps
    /\ dcall' = DictCall("setattr", key, v, 0)
    /\ Apply(Class_setitem(ctx, key, v))
    /\ UNCHANGED <<other, saved>>
    /\ UNCHANGED <<vars, reqs>>

\* delattr(ctx, key): __delattr__ (dictionary.py 54-55) is
\* self.__class__.__delitem__
DelAttr(key) ==
    /\ dcall.n < MaxOps
    /\ dcall' = DictCall("delattr", key, NoneVal, 0)
    /\ Apply(Class_delitem(ctx, key))
    /\ UNCHANGED <<other, saved>>
    /\ UNCHANGED <<vars, reqs>>

\* ctx.save()
Save ==
    /\ dcall.n < MaxOps
    /\ ctx.cls = "AspyreDictHistory"
    /\ (HasKey(ctx.d, HistoryKey) /\ DictItem(ctx.d, HistoryKey).kind = "list")
       => get_current_version(ctx) < MaxVersions
    /\ dcall' = DictCall("save", <<>>, NoneVal, 0)
    /\ LET r == save(ctx)
       IN /\ Apply(r)
          /\ saved' = IF r.exc # "" THEN saved
                      ELSE [valid |-> TRUE, d |-> NonReserved(ctx.d),
                            count |-> get_current_version(ctx), ever |-> TRUE]
    /\ UNCHANGED other
    /\ UNCHANGED <<vars, reqs>>

\* ctx.rollback(version)
Rollback(version) ==
    /\ dcall.n < MaxOps
    /\ ctx.cls = "AspyreDictHistory"
    /\ dcall' = DictCall("rollback", <<>>, NoneVal, version)
    /\ Apply(rollback(ctx, version))
    /\ saved' = [NothingSaved EXCEPT !.ever = saved.ever]
    /\ UNCHANGED other
    /\ UNCHANGED <<vars, reqs>>

\* other = cls(old_dict), old_dict being None, {'Content-Type': 1}, or ctx
MakeOther(cls, form) ==
    /\ dcall.n < MaxOps
    /\ dcall' = DictCall("copy", <<>>, NoneVal, 0)
    /\ LET old == CASE form = "none" -> NoArg
                    [] form = "mapping" -> MappingArg(<<ValEntry(K_ContentType, IntVal(1))>>)
                    [] form = "object" -> ObjectArg(ctx)
           r == New(cls, "other", old)
       IN /\ other' = IF r.exc # "" THEN other ELSE r.obj
          /\ dres' = DictResult(r.exc, Ret(NoneVal), r.obj)
    /\ UNCHANGED <<ctx, saved>>
    /\ UNCHANGED <<vars, reqs>>

\* left == right, for ctx == other, other == ctx and ctx == ctx
Equals(op, left, right) ==
    /\ dcall.n < MaxOps
    /\ left.cls \in Classes /\ right.cls \in Classes
    /\ dcall' = DictCall(op, <<>>, NoneVal, 0)
    /\ dres' = DictResult("", Ret(BoolVal(Eq(left, right))), NoObject)
    /\ UNCHANGED <<ctx, other, saved>>
    /\ UNCHANGED <<vars, reqs>>

\* ctx + m, m a plain dict
Add(m) ==
    /\ dcall.n < MaxOps
    /\ dcall' = DictCall("add", <<>>, NoneVal, 0)
    /\ LET r == Class_add(ctx, m)
       IN dres' = DictResult(r.exc, Ret(NoneVal), r.obj)
    /\ UNCHANGED <<ctx, other, saved>>
    /\ UNCHANGED <<vars, reqs>>

\* ctx - key
Sub(key) ==
    /\ dcall.n < MaxOps
    /\ dcall' = DictCall("sub", key, NoneVal, 0)
    /\ LET r == Class_sub(ctx, key)
       IN dres' = DictResult(r.exc, Ret(NoneVal), r.obj)
    /\ UNCHANGED <<ctx, other, saved>>
    /\ UNCHANGED <<vars, reqs>>

DictNext ==
    \/ \E key \in Keys : GetItem(key) \/ DelItem(key) \/ DelAttr(key) \/ Sub(key)
    \/ \E key \in Keys, v \in Values : SetItem(key, v) \/ SetAttr(key, v)
    \/ Save
    \/ \E version \in Versions : Rollback(version)
    \/ \E cls \in Classes, form \in {"none", "mapping", "object"} : MakeOther(cls, form)
    \/ Equals("ctx == other", ctx, other)
    \/ Equals("other == ctx", other, ctx)
    \/ Equals("ctx == ctx", ctx, ctx)
    \/ \E m \in Mappings : Add(m)

DictSpec == DictInit /\ [][DictNext]_<<vars, dvars, reqs>>
(***************************************************************************)
(* Concurrent dispatches on one pipeline.  Each request is a task that     *)
(* awaits Aspyre.find and then Aspyre.handle with what find returned.  The *)
(* event loop may switch tasks where handle awaits a hook (aspyre.py 119); *)
(* find, and handle between two hooks, run without interruption.  The      *)
(* registry, the hooks and dict_class belong to the pipeline; the chain,   *)
(* the loop position and context are locals of one activation of handle.   *)
(***************************************************************************)
\* What a hook of request r may do: return None, return an integer (its
\* own, 200 + r), raise a DomainError with reraise true.
RequestOutcomes(r) ==
    {[kind |-> "none", exc |-> "", code |-> 0, reraise |-> FALSE],
     [kind |-> "int", exc |-> "", code |-> 200 + r, reraise |-> FALSE],
     [kind |-> "domain", exc |-> "Error", code |-> 403, reraise |-> TRUE]}

\* The headers argument of request r's dispatch.
Headers(r) == IntVal(r)

\* context as handle creates it (aspyre.py 105-107)
NewContext(r) == DictSet(DictSet(EmptyDict, "arguments", NoneVal), "headers", Headers(r))

RequestEnded(rq, res) == [rq EXCEPT !.pc = "done", !.result = res]

\* await find(None, path, method), then handle(handlers, input, headers,
\* query_string) up to its first hook (aspyre.py 68-99, 101-110).
HandleEnter(hk, list, reg, dc, r, path, method) ==
    LET hs == AspyreFind(hk, method, RegexFind(list, reg, NoHost, path))
        rq == [NoRequest EXCEPT !.path = path, !.method = method]
    IN IF hs.exc # "" THEN RequestEnded(rq, RaisedResult(hs.exc, 0))
       ELSE IF hs.none THEN RequestEnded(rq, RaisedResult("UnboundLocalError", 0))
       ELSE IF dc = "unset" THEN RequestEnded(rq, RaisedResult("AttributeError", 0))
       ELSE [rq EXCEPT !.pc = "handling", !.handlers = hs, !.pos = 1,
                       !.context = NewContext(r)]

\* One iteration of the loops of handle (aspyre.py 112-144), the hook ending
\* as out says.
HandleStep(rq, out) ==
    LET logged == [rq EXCEPT !.log = Append(@, Invocation(Chain(rq.handlers)[rq.pos], out))]
    IN CASE out.kind = "none" -> [logged EXCEPT !.pos = @ + 1]
         [] out.kind = "int" ->
                [logged EXCEPT !.pos = @ + 1,
                               !.context = DictSet(@, "http_code", IntVal(out.code))]
         [] OTHER -> RequestEnded(logged, RaisedResult("UnboundLocalError", 0))

\* aspyre.py 146
HandleLeave(rq) == RequestEnded(rq, ReturnedResult("response"))

\* A pipeline that keeps one context for all its requests.
Activation_one_context(rs, r, rq) ==
    [q \in DOMAIN rs |-> IF q = r THEN rq ELSE [rs[q] EXCEPT !.context = rq.context]]

\* The locals of request r's activation of handle become rq; those of the
\* other activations are their own.
Activation(rs, r, rq) == [rs EXCEPT ![r] = rq]

\* The registry of the concurrent scenario:
\* Simple.add_route(A, '/products/<int:product_id>').
ConcRoutes == SimpleAddRoute(<<>>, "A", <<StrUrl(Tpl_products)>>).list

ConcMethods == {"get"}

ConcInit ==
    /\ url_list = ConcRoutes
    /\ types = {}
    /\ hooks \in {[h \in Handlers |-> p] : p \in HookProfiles}
    /\ dict_class \in {"unset", "AspyreDict"}
    /\ call = NoCall
    /\ pc = "idle"
    /\ found = NoFind
    /\ handlers = NoChain
    /\ pos = 0
    /\ context = EmptyDict
    /\ log = <<>>
    /\ result = NoResult
    /\ DictIdle

\* Another request is between two of its hooks.
OtherInChain(r) == \E q \in Requests \ {r} : reqs[q].pc = "handling" /\ reqs[q].log # <<>>

ConcBegin(r, path, method) ==
    /\ reqs[r].pc = "idle"
    /\ reqs' = Activation(reqs, r,
                          HandleEnter(hooks, url_list, types, dict_class, r, path, method))
    /\ UNCHANGED <<vars, dvars>>

ConcHook(r, out) ==
    /\ reqs[r].pc = "handling"
    /\ reqs[r].pos <= Len(Chain(reqs[r].handlers))
    /\ reqs' = Activation(reqs, r,
                          [HandleStep(reqs[r], out) EXCEPT
                              !.overlap = reqs[r].overlap \/ OtherInChain(r)])
    /\ UNCHANGED <<vars, dvars>>

ConcReturn(r) ==
    /\ reqs[r].pc = "handling"
    /\ reqs[r].pos > Len(Chain(reqs[r].handlers))
    /\ reqs' = Activation(reqs, r, HandleLeave(reqs[r]))
    /\ UNCHANGED <<vars, dvars>>

ConcNext ==
    \E r \in Requests :
        \/ \E path \in RequestPaths, method \in ConcMethods : ConcBegin(r, path, method)
        \/ \E out \in RequestOutcomes(r) : ConcHook(r, out)
        \/ ConcReturn(r)

\* A hook that is awaited returns or raises, and the event loop resumes every
\* task whose await has completed.
ConcFairness ==
    \A r \in Requests :
        /\ WF_reqs(\E out \in RequestOutcomes(r) : ConcHook(r, out))
        /\ WF_reqs(ConcReturn(r))

ConcSpec == ConcInit /\ [][ConcNext]_<<vars, dvars, reqs>> /\ ConcFairness

(***************************************************************************)
(* Properties.  The definitions of this section state what is claimed of   *)
(* the program; those above state what its code does.                      *)
(***************************************************************************)
\* The handlers url_class.find returned, in its order.
Matched == [i \in 1..Len(found.list) |-> found.list[i].cls]

\* The hooks invoked so far, and the hooks of a chain, as (handler, hook).
LogHooks == [i \in 1..Len(log) |-> <<log[i].h, log[i].hook>>]
ChainHooks(hs) == [i \in 1..Len(Chain(hs)) |-> <<Chain(hs)[i].h, Chain(hs)[i].hook>>]

\* Aspyre.handle has ended, by return or by exception.
HandleEnded == call.op = "Aspyre.handle" /\ pc = "idle" /\ result.how # "none"

\* C1: for method get and matched handlers [A, B] that both expose every
\* get-family hook, a dispatch in which every hook returns invokes A.before,
\* B.before, A.before_get, B.before_get, A.get, B.get, B.after_get,
\* A.after_get, B.after, A.after, in this order.
C1_GetChainOrder ==
    (/\ HandleEnded
     /\ result.how = "returned"
     /\ call.method = "get"
     /\ Matched = <<"A", "B">>
     /\ hooks["A"] = CallableHooks
     /\ hooks["B"] = CallableHooks)
    => LogHooks = << <<"A", Hook("before", "")>>, <<"B", Hook("before", "")>>,
                     <<"A", Hook("before", "get")>>, <<"B", Hook("before", "get")>>,
                     <<"A", Hook("", "get")>>, <<"B", Hook("", "get")>>,
                     <<"B", Hook("after", "get")>>, <<"A", Hook("after", "get")>>,
                     <<"B", Hook("after", "")>>, <<"A", Hook("after", "")>> >>

\* C2: when a hook raises a DomainError with reraise = true, it is the last
\* hook invoked and the dispatch returns the encoded error.
C2_ReraiseStopsChain ==
    \A i \in 1..Len(log) :
        (log[i].out.kind = "domain" /\ log[i].out.reraise)
        => /\ i = Len(log)
           /\ pc = "idle"
           /\ result.how = "returned"
           /\ result.encoded = "error"

\* The dict {code, message, name} that handle builds from a DomainError with
\* the given code.
ErrorVal(code) == [t |-> "error", n |-> code, s |-> <<>>]

\* C3: when a hook raises a DomainError with reraise = false, the error is
\* stored in the context's error slot and the status code is set to the
\* error's http_code, and handle goes on: when it ends without any other
\* failure, every chain entry has been invoked exactly once, in chain order.
C3_NonFatalErrorContinues ==
    \A i \in 1..Len(log) :
        (log[i].out.kind = "domain" /\ ~log[i].out.reraise)
        => /\ i = Len(log) =>
                /\ "error" \in DOMAIN context
                /\ context["error"] = ErrorVal(log[i].out.code)
                /\ "http_code" \in DOMAIN context
                /\ context["http_code"] = IntVal(log[i].out.code)
           /\ (/\ HandleEnded
               /\ \A j \in 1..Len(log) :
                     log[j].out.kind = "domain" => ~log[j].out.reraise
               /\ \A j \in 1..Len(log) : log[j].out.kind # "other")
              => (result.how = "returned" /\ LogHooks = ChainHooks(handlers))

\* C4: when a hook raises a failure that is not a DomainError, it is the last
\* hook invoked and that same failure leaves the dispatch: it is raised to the
\* caller, not encoded and returned.
C4_OtherFailurePropagates ==
    \A i \in 1..Len(log) :
        log[i].out.kind = "other"
        => /\ i = Len(log)
           /\ pc = "idle"
           /\ result.how = "raised"
           /\ result.exc = log[i].out.exc

\* C5: find returns at most one MatchResult per handler, also when several
\* templates of that handler match the request.
C5_OneMatchPerHandler ==
    found.exc = ""
    => \A i, j \in 1..Len(found.list) : i # j => found.list[i].cls # found.list[j].cls

\* What add_route registers for a well-formed (host, path) tuple: a route
\* holding both compiled patterns, the path without its leading '/'.
HostPathRoute(url, cls) == Route(Compiled(url.host), Compiled(Tail(url.path)), cls)

WellFormedHostPath(url) ==
    /\ url.form = "tuple"
    /\ url.host # <<>> /\ ~SubRaises(url.host) /\ ~CompileFails(url.host)
    /\ url.path # <<>> /\ url.path[1] = Slash
    /\ ~SubRaises(url.path) /\ ~CompileFails(url.path)

\* C6: a route registered with both a host template and a path template (by
\* add_route of a well-formed (host, path) tuple) is in the registry, and find
\* returns it only for a request whose entire host matches the host template
\* and whose entire path matches the path template.
C6_HostAndPathBothRequired ==
    /\ (/\ call.op = "Regex.add_route"
        /\ Len(call.urls) = 1
        /\ WellFormedHostPath(call.urls[1]))
       => /\ result.how = "returned"
          /\ url_list # <<>>
          /\ url_list[Len(url_list)] = HostPathRoute(call.urls[1], call.cls)
    /\ \A i \in 1..Len(url_list) :
          (~url_list[i].host.none /\ ~url_list[i].path.none)
          => \A h \in RequestHosts, p \in RequestPaths :
                RegexFind(<<url_list[i]>>, types, h, p).list # <<>>
                => /\ ~h.none
                   /\ FullMatch(url_list[i].host.re, h.s).ok
                   /\ FullMatch(url_list[i].path.re, p).ok

\* The route that Simple.add_route(P, '/products/<int:product_id>') registers.
ProductsRoute(cls) ==
    Route(NoPattern, Compiled(Lit(T_products) \o <<Slash, Group("int", T_product_id)>>), cls)

\* C7: with '/products/<int:product_id>' registered for a handler P that
\* exposes get, dispatching path '/products/1234' with method get invokes
\* P.get with product_id bound to the integer 1234.
C7_ProductsGet ==
    \A P \in Handlers :
        (/\ call.op = "Aspyre.__call__"
         /\ call.path = P_slash_products_1234
         /\ call.method = "get"
         /\ url_list = <<ProductsRoute(P)>>
         /\ Hook("", "get") \in hooks[P])
        => \E i \in 1..Len(log) :
              /\ log[i].h = P
              /\ log[i].hook = Hook("", "get")
              /\ log[i].args = <<IntVal(1234)>>

\* The conversion a placeholder declares: the caller's function for its tag
\* when there is one, otherwise the entry of __default_types__.
DeclaredConvert(reg, t, raw) ==
    IF HasType(reg, t) THEN ApplyFn(TypeFn(reg, t), raw)
    ELSE IF t \in DefaultTypeTags THEN ApplyFn(t, raw)
    ELSE Raised("UnknownTypeTag")

\* A route's pattern fully matches the request.
RouteMatches(u, host, path) ==
    /\ ~(u.host.none /\ u.path.none)
    /\ u.host.none \/ (~host.none /\ FullMatch(u.host.re, host.s).ok)
    /\ u.path.none \/ FullMatch(u.path.re, path).ok

RouteCaptures(u, host, path) ==
    (IF u.host.none THEN <<>> ELSE FullMatch(u.host.re, host.s).caps)
    \o (IF u.path.none THEN <<>> ELSE FullMatch(u.path.re, path).caps)

Convertible(reg, caps) ==
    \A i \in 1..Len(caps) : DeclaredConvert(reg, caps[i].type, caps[i].raw).exc = ""

DeclaredArgs(reg, caps) ==
    [i \in 1..Len(caps) |->
        [name |-> caps[i].name, val |-> DeclaredConvert(reg, caps[i].type, caps[i].raw).val]]

\* C8: with distinct handlers registered, find returns exactly the handlers of
\* the routes whose pattern fully matches, in registration order, each with
\* its captures converted by the declared type (when every capture of every
\* matching route can be converted).
C8_FindInRegistrationOrder ==
    (/\ call.op \in {"Aspyre.find", "Aspyre.handle"}
     /\ \A i, j \in 1..Len(url_list) : i # j => url_list[i].cls # url_list[j].cls
     /\ \A i \in 1..Len(url_list) :
           RouteMatches(url_list[i], call.host, call.path)
           => Convertible(types, RouteCaptures(url_list[i], call.host, call.path)))
    => /\ found.exc = ""
       /\ \E idx \in [1..Len(found.list) -> 1..Len(url_list)] :
             /\ \A a, b \in 1..Len(found.list) : a < b => idx[a] < idx[b]
             /\ \A i \in 1..Len(url_list) :
                   RouteMatches(url_list[i], call.host, call.path)
                   <=> \E a \in 1..Len(found.list) : idx[a] = i
             /\ \A a \in 1..Len(found.list) :
                   /\ found.list[a].cls = url_list[idx[a]].cls
                   /\ found.list[a].args =
                        DeclaredArgs(types,
                            RouteCaptures(url_list[idx[a]], call.host, call.path))

\* C9: a dispatch with a method outside get, post, put, patch, delete and
\* head, through Aspyre or through AspyreGroup, fails with the NotImplemented
\* DomainError (http_code 501) and invokes no hook.
C9_UnsupportedMethod ==
    (/\ call.op \in {"Aspyre.__call__", "AspyreGroup.__call__"}
     /\ call.method \notin HttpMethods \cup {"head"})
    => /\ result.how = "raised"
       /\ result.exc = "NotImplemented"
       /\ result.http_code = NotImplementedCode
       /\ log = <<>>

\* C10: a dispatch with method head is accepted and invokes exactly the hooks
\* that the chain for get holds for the same host and path, in chain order.
C10_HeadRunsGetChain ==
    (call.op = "Aspyre.__call__" /\ call.method = "head")
    => /\ ~(result.how = "raised" /\ result.exc = "NotImplemented")
       /\ LogHooks =
            ChainHooks(AspyreFind(hooks, "get",
                                  RegexFind(url_list, types, call.host, call.path)))

\* A dispatch of a supported method has ended: through Aspyre.__call__, or
\* through find awaited and its value handed to handle.
DispatchEnded ==
    \/ call.op = "Aspyre.__call__" /\ call.method \in HttpMethods
    \/ HandleEnded

\* Some registered route fully matches the request.
SomeRouteMatches ==
    \E i \in 1..Len(url_list) : RouteMatches(url_list[i], call.host, call.path)

\* C11: a dispatch whose (host, path) matches no registered route fails with
\* the NotFound DomainError (http_code 404) and invokes no hook; a dispatch
\* that matches at least one route never ends with this 404.
C11_NoMatchIsNotFound ==
    DispatchEnded
    => IF SomeRouteMatches
       THEN ~(result.how = "raised" /\ result.exc = "NotFound")
       ELSE /\ result.how = "raised"
            /\ result.exc = "NotFound"
            /\ result.http_code = NotFoundCode
            /\ log = <<>>

\* C12: when a dispatch completes and no hook returned an integer or raised,
\* the status code recorded in the request's context is 200.
C12_DefaultStatusOk ==
    (/\ HandleEnded
     /\ result.how = "returned"
     /\ \A i \in 1..Len(log) : log[i].out.kind = "none")
    => /\ "http_code" \in DOMAIN context
       /\ context["http_code"] = IntVal(200)

(***************************************************************************)
(* Properties of the dictionary classes.                                   *)
(***************************************************************************)
Mutable(o) == o.cls \in {"AspyreDict", "AspyreDictHistory"}

\* A key that does not reduce to the letters of the reserved slot.
Ordinary(key) == NormalKey(key) # NormalKey(HistoryKey)

\* C13: on a mutable context, the versioned one included, keys with the same
\* normalized form address one slot: after set(k1, v), get(k2) returns v for
\* every k2 that normalizes like k1, and no two stored keys share a
\* normalized form.
C13_NormalizedKeysShareSlot ==
    Mutable(ctx)
    => /\ (dcall.op = "setitem" /\ dres.exc = "" /\ Ordinary(dcall.key))
          => \A k2 \in Keys :
                NormalKey(k2) = NormalKey(dcall.key)
                => Class_getitem(ctx, k2) = Ret(dcall.val)
       /\ \A i, j \in 1..Len(ctx.d) :
             i # j => NormalKey(ctx.d[i].key) # NormalKey(ctx.d[j].key)

\* A step of the dictionary specification that makes the operation op.
DictStep(ops) == dcall'.n = dcall.n + 1 /\ dcall'.op \in ops

HasHistory(o) == HasKey(o.d, HistoryKey) /\ DictItem(o.d, HistoryKey).kind = "list"

\* C14: on a versioned context, rollback() after save(), with any set and
\* delete operations in between, succeeds and leaves the non-reserved keys
\* and values as they were when save() was called, and the version count as
\* it was before that save().
C14_SaveRollbackRestores ==
    [][(DictStep({"rollback"}) /\ dcall'.version = -1 /\ saved.valid)
       => /\ dres'.exc = ""
          /\ NonReserved(ctx'.d) = saved.d
          /\ HasHistory(ctx')
          /\ get_current_version(ctx') = saved.count]_<<vars, dvars>>

\* The entry '__history' of a __dict__, or its absence.
HistorySlot(d) == IF HasKey(d, HistoryKey) THEN <<DictItem(d, HistoryKey)>> ELSE <<>>

\* C15: on a versioned context no set or delete through the key interface
\* changes or removes the history; one that names the reserved slot fails
\* and leaves the context unchanged; the history changes only through save()
\* and rollback().
C15_HistoryReserved ==
    [][ctx.cls = "AspyreDictHistory"
       => /\ DictStep({"setitem", "delitem"})
             => /\ HistorySlot(ctx'.d) = HistorySlot(ctx.d)
                /\ StrLower(dcall'.key) = HistoryKey => (dres'.exc # "" /\ ctx' = ctx)
          /\ HistorySlot(ctx'.d) # HistorySlot(ctx.d)
             => DictStep({"save", "rollback"})]_<<vars, dvars>>

\* The keys and values of an element of the history of o: those of o when
\* the element is o itself, those of the snapshot otherwise.
EntryState(o, e) == IF e.ref # "" THEN NonReserved(o.d) ELSE NonReserved(e.d)

\* C16: every element of a versioned context's history is an immutable
\* prior state: none is the live context itself, and no set, delete or save
\* on the live context changes the keys or values of an element recorded
\* before.
C16_HistoryEntriesImmutable ==
    [][(ctx.cls = "AspyreDictHistory" /\ HasHistory(ctx))
       => LET list == DictItem(ctx.d, HistoryKey).list IN
          /\ \A i \in 1..Len(list) : list[i].ref = ""
          /\ DictStep({"setitem", "delitem", "save"})
             => /\ HasHistory(ctx')
                /\ \A i \in 1..Len(list) :
                      /\ i <= get_current_version(ctx')
                      /\ EntryState(ctx', DictItem(ctx'.d, HistoryKey).list[i])
                            = EntryState(ctx, list[i])]_<<vars, dvars>>

\* The non-reserved keys, normalized, with their values.
NormalNonReserved(o) == {[key |-> NormalKey(e.key), val |-> e.val] : e \in NonReserved(o.d)}

\* C17: a == b holds exactly when a and b hold the same non-reserved keys
\* with equal values, whatever their histories; so every context equals
\* itself and a copy of itself.
C17_EqualityIgnoresHistory ==
    /\ dcall.op = "ctx == other"
       => dres.ret = Ret(BoolVal(NormalNonReserved(ctx) = NormalNonReserved(other)))
    /\ dcall.op = "other == ctx"
       => dres.ret = Ret(BoolVal(NormalNonReserved(ctx) = NormalNonReserved(other)))
    /\ dcall.op = "ctx == ctx" => dres.ret = Ret(BoolVal(TRUE))

\* C18: no operation changes the keys or values of a read-only view: item
\* assignment, item deletion, attribute assignment and attribute deletion
\* fail with an error, and + and - leave the view they are applied to as it
\* was.
C18_ViewNeverChanges ==
    [][ctx.cls = "AspyreDictImmutable"
       => /\ ctx' = ctx
          /\ DictStep({"setitem", "delitem", "setattr", "delattr"})
             => dres'.exc = "TypeError"]_<<vars, dvars>>

\* A view holding a key was the target of an item assignment, which failed.
C18_Witness ==
    /\ ctx.cls = "AspyreDictImmutable"
    /\ NonReserved(ctx.d) # {}
    /\ dcall.op = "setitem"
    /\ dres.exc = "TypeError"

\* A str url argument that does not begin with '/'.
NoLeadingSlash(url) == url.form = "str" /\ (url.path = <<>> \/ url.path[1] # Slash)

\* C19: add_route, of Regex and of Simple, whose first template does not
\* begin with '/' fails with the malformed-route error (ValueError) and
\* leaves the registry as it was.
C19_NoSlashRejected ==
    [][(/\ call'.op \in {"Simple.add_route", "Regex.add_route"}
        /\ call'.urls # <<>>
        /\ NoLeadingSlash(call'.urls[1]))
       => (/\ result'.how = "raised"
           /\ result'.exc = "ValueError"
           /\ url_list' = url_list)]_vars

\* Some route matches the request with a capture that its declared type
\* rejects.
SomeCaptureUnconvertible ==
    \E i \in 1..Len(url_list) :
        /\ RouteMatches(url_list[i], call.host, call.path)
        /\ LET caps == RouteCaptures(url_list[i], call.host, call.path)
           IN \E c \in 1..Len(caps) :
                 DeclaredConvert(types, caps[c].type, caps[c].raw).exc = "ValueError"

\* C20: when the path matches a route but a capture cannot be converted by
\* its declared type, the failure is raised at match time (by find), no
\* hook is invoked, and the failure is a DomainError of http_code 400.
C20_ConversionFailureIsBadRequest ==
    (call.op = "Aspyre.find" /\ SomeCaptureUnconvertible)
    => /\ log = <<>>
       /\ result.how = "raised"
       /\ result.http_code = 400

(***************************************************************************)
(* Properties of registration, resolution and conversion.                  *)
(***************************************************************************)
\* The type tags a template or a pattern names.
TagsOf(re) == {re[i].type : i \in {j \in 1..Len(re) : re[j].k \in {"ph", "g", "colon"}}}

\* A tag that is in neither the caller's registry nor __default_types__.
UnknownTag(reg, t) == ~HasType(reg, t) /\ t \notin DefaultTypeTags

NamesUnknownTag(reg, url) ==
    \E t \in TagsOf(url.host) \cup TagsOf(url.path) : UnknownTag(reg, t)

\* C21: add_route of a template whose placeholder names a type tag that is in
\* neither the caller-supplied registry nor the built-in defaults raises, and
\* no route with such a tag is in the registry.
C21_UnknownTagRejected ==
    /\ (/\ call.op \in {"Simple.add_route", "Regex.add_route"}
        /\ \E i \in 1..Len(call.urls) : NamesUnknownTag(types, call.urls[i]))
       => result.how = "raised"
    /\ \A i \in 1..Len(url_list) :
          \A t \in TagsOf(url_list[i].host.re) \cup TagsOf(url_list[i].path.re) :
              ~UnknownTag(types, t)

\* The hook kind of each of the five stages, for a request method.
StageHook(method) ==
    <<Hook("before", ""), Hook("before", method), Hook("", method),
      Hook("after", method), Hook("after", "")>>

\* C23: when url_class.find matched handlers, resolve does not fail, and each
\* of the five stages holds exactly one entry per matched handler that exposes
\* the stage's hook and none for a handler that does not, every entry being
\* the handler's hook of the stage's own kind.
C23_StagesHoldOwnHooks ==
    (call.op = "Aspyre.find" /\ found.exc = "" /\ found.list # <<>>)
    => /\ result.how = "returned"
       /\ ~handlers.none
       /\ \A s \in 1..5 :
             /\ \A i \in 1..Len(handlers.stages[s]) :
                   handlers.stages[s][i].hook = StageHook(call.method)[s]
             /\ \A h \in {found.list[a].cls : a \in 1..Len(found.list)} :
                   Cardinality({i \in 1..Len(handlers.stages[s]) :
                                   handlers.stages[s][i].h = h})
                   = IF Exposes(hooks, h, StageHook(call.method)[s]) THEN 1 ELSE 0

\* The invocations that set the status: a hook that returned an integer, or
\* raised a DomainError with reraise = false.
StatusEvents == {i \in 1..Len(log) :
                    \/ log[i].out.kind = "int"
                    \/ log[i].out.kind = "domain" /\ ~log[i].out.reraise}

NonFatalErrors == {i \in 1..Len(log) : log[i].out.kind = "domain" /\ ~log[i].out.reraise}

\* No hook of the request raised a DomainError with reraise = true or a
\* failure that is not a DomainError.
NoFatalEvent ==
    \A i \in 1..Len(log) :
        /\ log[i].out.kind # "other"
        /\ log[i].out.kind = "domain" => ~log[i].out.reraise

\* C24: when handle has ended and no hook stopped the chain, the chain was
\* run to its end, the status code of the context is the one of the last
\* status-setting invocation (an integer return, or a DomainError with
\* reraise = false), and the error slot holds the last such DomainError.
C24_LastStatusWins ==
    (HandleEnded /\ NoFatalEvent /\ StatusEvents # {})
    => /\ LogHooks = ChainHooks(handlers)
       /\ "http_code" \in DOMAIN context
       /\ context["http_code"] = IntVal(log[Max(StatusEvents)].out.code)
       /\ NonFatalErrors # {}
          => /\ "error" \in DOMAIN context
             /\ context["error"] = ErrorVal(log[Max(NonFatalErrors)].out.code)

\* The captures of the first registered route that matches the request:
\* those Regex.find converts first.
FirstMatch == Min({i \in 1..Len(url_list) : RouteMatches(url_list[i], call.host, call.path)})

\* C25: a captured value with type tag t is converted by the caller's function
\* for t when the registry has one, otherwise by the built-in default for t,
\* and the conversion fails for want of a type only when t is in neither:
\* the conversion find applies to each capture of the first matching route
\* ends as the declared one does, and find raises only when a declared
\* conversion raises.
C25_ConversionByRegistryThenDefault ==
    (call.op = "Aspyre.find" /\ SomeRouteMatches)
    => LET caps == RouteCaptures(url_list[FirstMatch], call.host, call.path)
       IN /\ \A i \in 1..Len(caps) :
                Convert(types, caps[i].type, caps[i].raw)
                = DeclaredConvert(types, caps[i].type, caps[i].raw)
          /\ Convertible(types, caps) /\ Len(url_list) = 1 => found.exc = ""

AddOps == {"Simple.add_route", "Regex.add_route"}

\* add_route(cls, url) with the one template url, on an empty registry.
AddAlone(op, cls, url) ==
    IF op = "Simple.add_route" THEN SimpleAddRoute(<<>>, cls, <<url>>)
    ELSE RegexAddRoute(<<>>, cls, <<url>>)

\* A later find lists the handler of route u for every request u matches,
\* unless a conversion makes find raise.
FoundLater(list, u) ==
    \A h \in RequestHosts, p \in RequestPaths :
        RouteMatches(u, h, p)
        => LET f == RegexFind(list, types, h, p)
           IN f.exc = "" => \E a \in 1..Len(f.list) : f.list[a].cls = u.cls

\* C28: add_route is not atomic over its templates.  A call raises exactly
\* when add_route rejects one of its templates; with k the first such
\* template, the registry is then the old one followed by the routes of
\* templates 1..k-1 of the call, in order, which later find calls match, and
\* holds no route for template k or a later one.
C28_AddRouteNotAtomic ==
    [][call'.op \in AddOps
       => LET n == Len(url_list)
              rejected == {k \in 1..Len(call'.urls) :
                              AddAlone(call'.op, call'.cls, call'.urls[k]).exc # ""}
          IN /\ result'.how = "raised" <=> rejected # {}
             /\ result'.how = "raised"
                => LET k == Min(rejected)
                   IN /\ Len(url_list') = n + k - 1
                      /\ SubSeq(url_list', 1, n) = url_list
                      /\ \A j \in 1..(k - 1) :
                            /\ AddAlone(call'.op, call'.cls, call'.urls[j]).list
                               = <<url_list'[n + j]>>
                            /\ FoundLater(url_list', url_list'[n + j])]_vars

\* A call with two templates raised on the second, and the route of the
\* first is the last of the registry.
C28_Witness ==
    /\ call.op \in AddOps
    /\ Len(call.urls) = 2
    /\ result.how = "raised"
    /\ AddAlone(call.op, call.cls, call.urls[2]).exc # ""
    /\ url_list # <<>>
    /\ AddAlone(call.op, call.cls, call.urls[1]).list = <<url_list[Len(url_list)]>>
    /\ \E p \in RequestPaths : RouteMatches(url_list[Len(url_list)], NoHost, p)

(***************************************************************************)
(* Properties of save() and rollback().                                    *)
(***************************************************************************)
\* C26: save() returns one more than the index of the snapshot it appended.
\* With v the value of the last save() and no rollback since, rollback(v - 1)
\* succeeds and leaves the keys and values that were saved, and rollback(v)
\* fails with IndexError and leaves the context, its history included, as it
\* was.
C26_SaveReturnsIndexPlusOne ==
    [][/\ (DictStep({"save"}) /\ dres'.exc = "")
          => /\ dres'.ret.val = IntVal(saved'.count + 1)
             /\ get_current_version(ctx') = saved'.count + 1
             /\ NonReserved(DictItem(ctx'.d, HistoryKey).list[saved'.count + 1].d) = saved'.d
       /\ (DictStep({"rollback"}) /\ saved.valid /\ dcall'.version = saved.count)
          => /\ dres'.exc = ""
             /\ NonReserved(ctx'.d) = saved.d
       /\ (DictStep({"rollback"}) /\ saved.valid /\ dcall'.version = saved.count + 1)
          => /\ dres'.exc = "IndexError"
             /\ ctx' = ctx]_<<vars, dvars>>

\* C27: rollback() on a versioned context on which save() was never called,
\* and rollback(0) at any time, succeeds, leaves no key other than the
\* reserved one, and leaves the version count as it was.
C27_RollbackToStartClears ==
    [][(/\ DictStep({"rollback"})
        /\ dcall'.version = 0 \/ (dcall'.version = -1 /\ ~saved.ever))
       => /\ dres'.exc = ""
          /\ NonReserved(ctx'.d) = {}
          /\ HasHistory(ctx')
          /\ get_current_version(ctx') = get_current_version(ctx)]_<<vars, dvars>>

(***************************************************************************)
(* Properties of concurrent dispatches.                                    *)
(***************************************************************************)
\* The context that the chain of request r leaves after the invocations l.
RECURSIVE ContextAfter(_, _)
ContextAfter(c, l) ==
    IF l = <<>> THEN c
    ELSE ContextAfter(IF Head(l).out.kind = "int"
                      THEN DictSet(c, "http_code", IntVal(Head(l).out.code)) ELSE c,
                      Tail(l))

Reraised(o) == o.kind = "domain" /\ o.reraise

\* Request rq was stopped by a DomainError with reraise = true of its own.
StoppedByReraise(rq) == rq.pc = "done" /\ rq.log # <<>> /\ Reraised(rq.log[Len(rq.log)].out)

\* Every hook of rq's chain was invoked, in chain order.
AllInvoked(rq) ==
    [i \in 1..Len(rq.log) |-> <<rq.log[i].h, rq.log[i].hook>>] = ChainHooks(rq.handlers)

\* What holds of request r after any step, whichever request took it.
OwnChainOnly(rs, r) ==
    /\ rs[r].pc = "handling"
       => rs[r].context = ContextAfter(NewContext(r), rs[r].log)
    /\ \A i \in 1..Len(rs[r].log) :
          Reraised(rs[r].log[i].out) => i = Len(rs[r].log) /\ rs[r].pc = "done"
    /\ (rs[r].pc = "done" /\ ~rs[r].handlers.none)
       => /\ rs[r].context = ContextAfter(NewContext(r), rs[r].log)
          /\ \/ rs[r].result.how = "returned" /\ AllInvoked(rs[r])
             \/ StoppedByReraise(rs[r])

====
